---- MODULE Spec2Model ----
(***************************************************************************)
(* Fraud-detection service: the streaming session registry and the stream  *)
(* worker (src/app.py, specifications Spec and FairSpec), the predict      *)
(* route (PredictSpec), the classification of a probability (ScoreSpec),   *)
(* the feature transform (src/fraud_detection.py, PreprocessSpec), the     *)
(* lazily built detector (DetectorSpec) and the retrieval of the artifact  *)
(* files (src/huggingface_utils.py, HubSpec).  Each specification moves    *)
(* the variables of its component and leaves the others as Init set them.  *)
(*                                                                         *)
(* Scheduling.  The server runs with async_mode='eventlet' and the module  *)
(* is not monkey-patched: handlers and background tasks are green threads  *)
(* that give up control only at an explicit eventlet call.  The Socket.IO  *)
(* handlers contain none, so each handler is one atomic action.  The only  *)
(* suspension point of stream_predictions is eventlet.sleep (line 334);    *)
(* a worker therefore takes one atomic step from its start to its first    *)
(* sleep, and one atomic step from each wake-up to the next sleep or to    *)
(* its termination (finally block included).                               *)
(***************************************************************************)
EXTENDS Integers, Sequences, FiniteSets, TLC

\* ---- bounds of the model ----
NRecords == 2       \* rows of test_merged, the transaction source
MaxWorkers == 2     \* background tasks ever started

Sids == {"s1", "s2"}     \* connections (request.sid values) that ever connect
Visitors == {"vA", "vB"}
NoVisitor == ""     \* data.get('visitor_id') of a message without one
WorkerIds == 1..MaxWorkers

VARIABLES
    conn,               \* sid -> "new" | "open" | "closed" (transport state)
    active_streams,     \* visitor_id -> [socket_ids, status, thread]
    socket_to_visitor,  \* sid -> visitor_id
    rooms,              \* visitor_id -> sids in the Socket.IO room of that name
    workers,            \* thread -> [visitor, pc, idx, reaps, raised]
    events,             \* thread -> sequence of events the worker emitted
    last,               \* the step that ran last: the event it emitted and to whom
    request,            \* the POST /predict request being served
    response,           \* the answer of the predict route to it
    score,              \* a probability and what predict / predict_batch return for it
    transform,          \* a detector, an input and what preprocess makes of them
    detector,           \* the global detector of app.py and who was handed what
    hub                 \* the artifact cache, the remote store and the last retrieval

stream_vars == <<conn, active_streams, socket_to_visitor, rooms, workers, events, last>>
\* state of the components that are checked on their own
aux_vars == <<score, transform, detector, hub>>
vars == <<conn, active_streams, socket_to_visitor, rooms, workers, events, last,
          request, response, aux_vars>>

\* ---- helpers ----
Remove(f, k) == [x \in (DOMAIN f) \ {k} |-> f[x]]
Put(f, k, val) == [x \in (DOMAIN f) \cup {k} |-> IF x = k THEN val ELSE f[x]]

\* TransactionID of the i-th row of test_merged (rows are distinct records)
TransactionID(i) == 1000 + i

\* variant: every iteration reads the first row again
RowAt_first(i) == TransactionID(1)

\* row fetched by the i-th iteration of `for idx, row in test_merged.iterrows()`
RowAt(i) == TransactionID(i)

\* threads that have been started and have not yet returned
Live == {w \in DOMAIN workers : workers[w].pc # "done"}
LiveFor(v) == {w \in Live : workers[w].visitor = v}

\* ---- POST /predict: payloads and answers ----
\* what request.get_json() returns; "object" is a non-empty JSON object
Bodies == {"null", "empty_object", "empty_array", "array", "scalar", "object"}
\* keys of a JSON object: the columns preprocess indexes, the categorical
\* columns (as one group) and some other column of final_columns
RequiredFields == {"card1", "addr1", "TransactionAmt", "cat_cols"}
Fields == RequiredFields \cup {"other"}
\* what encoder.transform / model.predict_proba do with the aligned frame
Outcomes == {"ok", "ValueError", "Exception"}

Requests ==
    [is_json : BOOLEAN, body : Bodies \ {"object"}, fields : {{}}, outcome : {"ok"}]
    \cup [is_json : BOOLEAN, body : {"object"}, fields : (SUBSET Fields) \ {{}},
          outcome : Outcomes]

NoRequest == [is_json |-> FALSE, body |-> "none", fields |-> {}, outcome |-> "ok"]
NoResponse == [status |-> 0, success |-> FALSE, data |-> "none", invoked |-> FALSE]

\* ---- FraudDetector.predict / predict_batch: probabilities and results ----
\* a probability is prob / ProbScale; the step is a third of 1/10000, so no
\* probability lies half-way between two 4-decimal values
ProbScale == 30000
Probs == 0..ProbScale
NoResult == [fraud_probability |-> -1, risk_level |-> "none", status |-> "none"]
NoScore == [prob |-> -1, single |-> NoResult, batch |-> <<>>]

\* ---- FraudDetector.preprocess: cells, frames, artifacts, inputs ----
\* a cell of a DataFrame; NaN is the missing value
NaN == <<"nan", 0>>
Num(n) == <<"num", n>>
Frac(n, d) == <<"frac", n, d>>      \* the float n / d when d does not divide n
Inf(sign) == <<"inf", sign>>
Str(s) == <<"str", s>>
Absent == <<"absent", 0>>           \* a key the record does not have
Sentinel == -999

\* the artifact bundle of a detector (joblib files of _load_local_artifacts);
\* the encoder either maps an unseen category to -1 or raises ValueError
cat_cols == {"ProductCD"}
final_columns ==
    <<"TransactionAmt", "card1", "addr1", "ProductCD", "DeviceInfo", "dist1",
      "uid1", "TransactionAmt_to_mean_card1", "TransactionAmt_to_std_card1">>
card_stats ==
    (1234 :> [mean |-> 50, std |-> 10]) @@ (2222 :> [mean |-> 0, std |-> 0])
    @@ (3333 :> [mean |-> 50])
Detectors ==
    [card_stats : {card_stats}, cat_cols : {cat_cols}, final_columns : {final_columns},
     encoder : {[ProductCD |-> ("MISSING" :> 0) @@ ("W" :> 1)]},
     handle_unknown : {"use_encoded_value", "error"}]

\* a dictionary (one record of the stream or of POST /predict): the records
\* that vary the card, the address and the amount, and those that vary the
\* other fields
DictRecords ==
    [card1 : {Absent, NaN, Num(1234), Num(2222), Num(3333), Num(9999)},
     addr1 : {Absent, NaN, Num(100)},
     TransactionAmt : {Absent, NaN, Num(0), Num(100), Num(-50)},
     ProductCD : {Str("W")}, DeviceInfo : {Str("iOS")}, dist1 : {Num(5)},
     extra : {Absent}]
    \cup
    [card1 : {Absent, Num(1234)}, addr1 : {Num(100)}, TransactionAmt : {Num(100)},
     ProductCD : {Absent, NaN, Str("W"), Str("Z")},
     DeviceInfo : {Absent, NaN, Str("iOS")},
     dist1 : {Absent, NaN, Num(5)},
     extra : {Absent, Num(1)}]
Present(r) == [k \in {c \in DOMAIN r : r[c] # Absent} |-> r[k]]
\* a row of a two-row DataFrame (predict_batch)
FrameRows ==
    [card1 : {NaN, Num(1234)}, addr1 : {Num(100)},
     TransactionAmt : {Num(100), Num(25)}, ProductCD : {Str("W")},
     DeviceInfo : {NaN, Str("iOS"), Str("Android")}, dist1 : {NaN}]
Inputs ==
    {[is_dict |-> TRUE, columns |-> DOMAIN Present(r), rows |-> <<Present(r)>>] :
        r \in {d \in DictRecords : \E c \in DOMAIN d : d[c] # Absent}}
    \cup {[is_dict |-> FALSE, columns |-> DOMAIN a, rows |-> <<a, b>>] :
            a \in FrameRows, b \in FrameRows}
NoInput == [is_dict |-> TRUE, columns |-> {}, rows |-> <<>>]
NoFrame == [columns |-> <<>>, rows |-> <<>>]
NoFeatures == [raised |-> "none", out |-> NoFrame, uid1 |-> <<>>]
NoTransform ==
    [self |-> 0, input_data |-> NoInput, calls |-> 0, others |-> 0, arg |-> NoInput,
     passed |-> NoInput, result |-> NoFeatures,
     first |-> [arg |-> NoInput, result |-> NoFeatures]]

\* ---- get_detector: the lazily built detector and its callers ----
\* the predict route (0) and the stream workers
Callers == {0} \cup WorkerIds
MaxGets == 2        \* calls of get_detector by one caller
\* instance: 0 is None, else the number of the FraudDetector bound to the
\* global; built: FraudDetector objects constructed so far; handed: what each
\* caller's last call returned (0: nothing yet, or the call raised)
NoDetector ==
    [instance |-> 0, built |-> 0, handed |-> [c \in Callers |-> 0],
     gets |-> [c \in Callers |-> 0]]

\* ---- HuggingFaceDownloader: the artifact files, the cache, the remote store ----
artifacts ==
    <<"artifact_model.pkl", "artifact_encoder.pkl", "artifact_card1_stats.pkl",
      "artifact_cat_cols.pkl", "artifact_columns.pkl">>
Artifacts == {artifacts[i] : i \in DOMAIN artifacts}
\* cached: files present in cache_dir; remote: files hf_hub_download can
\* deliver; force: force_download; local: artifact_path holds a loadable
\* bundle; hf: "ok", or why loading through the downloader fails although
\* the download succeeds ("ImportError": huggingface_utils cannot be
\* imported, "load_error": joblib.load raises on a downloaded file)
NoRetrieval ==
    [op |-> "none", file |-> "", before |-> {}, contacted |-> {}, result |-> "none",
     paths |-> {}, source |-> "none"]
NoHub ==
    [cached |-> {}, remote |-> {}, force |-> FALSE, local |-> FALSE, hf |-> "ok",
     did |-> NoRetrieval]

\* the service after start-up: no connection, no session, no request
BaseInit ==
    /\ request = NoRequest
    /\ response = NoResponse
    /\ conn = [s \in Sids |-> "new"]
    /\ active_streams = [v \in {} |-> 0]
    /\ socket_to_visitor = [s \in {} |-> 0]
    /\ rooms = [v \in Visitors |-> {}]
    /\ workers = [w \in {} |-> 0]
    /\ events = [w \in {} |-> 0]
    /\ last = [op |-> "init", sid |-> "", visitor |-> NoVisitor, reply |-> "none", to |-> {}]

AuxInit ==
    /\ score = NoScore
    /\ transform = NoTransform
    /\ detector = NoDetector
    /\ hub = NoHub

Init == BaseInit /\ AuxInit

\* ---- handle_connect ----
Connect(sid) ==
    /\ conn[sid] = "new"
    /\ conn' = [conn EXCEPT ![sid] = "open"]
    /\ last' = [op |-> "connect", sid |-> sid, visitor |-> NoVisitor, reply |-> "connected", to |-> {sid}]
    /\ UNCHANGED <<active_streams, socket_to_visitor, rooms, workers, events>>
    /\ UNCHANGED <<request, response, aux_vars>>

\* ---- handle_join_stream ----
\* The thread handle the next start_background_task returns.
NewThread == Cardinality(DOMAIN workers) + 1

\* variant: the membership test of line 228 is missing, every join creates a
\* session and starts a task
handle_join_stream_alwaysNew(sid, visitor_id) ==
    IF visitor_id = NoVisitor
    THEN [streams |-> active_streams, s2v |-> socket_to_visitor, rooms |-> rooms,
          spawn |-> FALSE, reply |-> "error"]
    ELSE [streams |-> Put(active_streams, visitor_id,
                          [socket_ids |-> {sid}, status |-> "active", thread |-> NewThread]),
          s2v |-> Put(socket_to_visitor, sid, visitor_id),
          rooms |-> [rooms EXCEPT ![visitor_id] = @ \cup {sid}],
          spawn |-> TRUE, reply |-> "stream_started"]

\* variant: join_room is called only in the branch that creates the session
handle_join_stream_noRoom(sid, visitor_id) ==
    IF visitor_id = NoVisitor
    THEN [streams |-> active_streams, s2v |-> socket_to_visitor, rooms |-> rooms,
          spawn |-> FALSE, reply |-> "error"]
    ELSE IF visitor_id \in DOMAIN active_streams
    THEN [streams |-> [active_streams EXCEPT ![visitor_id].socket_ids = @ \cup {sid}],
          s2v |-> Put(socket_to_visitor, sid, visitor_id),
          rooms |-> rooms,
          spawn |-> FALSE, reply |-> "joined_existing_stream"]
    ELSE [streams |-> Put(active_streams, visitor_id,
                          [socket_ids |-> {sid}, status |-> "active", thread |-> NewThread]),
          s2v |-> Put(socket_to_visitor, sid, visitor_id),
          rooms |-> [rooms EXCEPT ![visitor_id] = @ \cup {sid}],
          spawn |-> TRUE, reply |-> "stream_started"]

\* variant: a join makes the session active again
handle_join_stream_reactivate(sid, visitor_id) ==
    IF visitor_id = NoVisitor
    THEN [streams |-> active_streams, s2v |-> socket_to_visitor, rooms |-> rooms,
          spawn |-> FALSE, reply |-> "error"]
    ELSE IF visitor_id \in DOMAIN active_streams
    THEN [streams |-> [active_streams EXCEPT ![visitor_id].socket_ids = @ \cup {sid},
                                             ![visitor_id].status = "active"],
          s2v |-> Put(socket_to_visitor, sid, visitor_id),
          rooms |-> [rooms EXCEPT ![visitor_id] = @ \cup {sid}],
          spawn |-> FALSE, reply |-> "joined_existing_stream"]
    ELSE [streams |-> Put(active_streams, visitor_id,
                          [socket_ids |-> {sid}, status |-> "active", thread |-> NewThread]),
          s2v |-> Put(socket_to_visitor, sid, visitor_id),
          rooms |-> [rooms EXCEPT ![visitor_id] = @ \cup {sid}],
          spawn |-> TRUE, reply |-> "stream_started"]

\* variant: the visitor_id is not tested, a missing one names a session too
handle_join_stream_noCheck(sid, visitor_id) ==
    IF visitor_id \in DOMAIN active_streams
    THEN [streams |-> [active_streams EXCEPT ![visitor_id].socket_ids = @ \cup {sid}],
          s2v |-> Put(socket_to_visitor, sid, visitor_id),
          rooms |-> Put(rooms, visitor_id,
                        (IF visitor_id \in DOMAIN rooms THEN rooms[visitor_id] ELSE {})
                            \cup {sid}),
          spawn |-> FALSE, reply |-> "joined_existing_stream"]
    ELSE [streams |-> Put(active_streams, visitor_id,
                          [socket_ids |-> {sid}, status |-> "active", thread |-> NewThread]),
          s2v |-> Put(socket_to_visitor, sid, visitor_id),
          rooms |-> Put(rooms, visitor_id,
                        (IF visitor_id \in DOMAIN rooms THEN rooms[visitor_id] ELSE {})
                            \cup {sid}),
          spawn |-> TRUE, reply |-> "stream_started"]

handle_join_stream(sid, visitor_id) ==
    IF visitor_id = NoVisitor
    THEN [streams |-> active_streams, s2v |-> socket_to_visitor, rooms |-> rooms,
          spawn |-> FALSE, reply |-> "error"]
    ELSE IF visitor_id \in DOMAIN active_streams
    THEN [streams |-> [active_streams EXCEPT ![visitor_id].socket_ids = @ \cup {sid}],
          s2v |-> Put(socket_to_visitor, sid, visitor_id),
          rooms |-> [rooms EXCEPT ![visitor_id] = @ \cup {sid}],
          spawn |-> FALSE, reply |-> "joined_existing_stream"]
    ELSE [streams |-> Put(active_streams, visitor_id,
                          [socket_ids |-> {sid}, status |-> "active", thread |-> NewThread]),
          s2v |-> Put(socket_to_visitor, sid, visitor_id),
          rooms |-> [rooms EXCEPT ![visitor_id] = @ \cup {sid}],
          spawn |-> TRUE, reply |-> "stream_started"]

\* variant: the new task resumes where the visitor's previous task stopped
NewWorker_resume(visitor_id) ==
    LET prev == {w \in DOMAIN workers : workers[w].visitor = visitor_id}
        at == IF prev = {} THEN 1
              ELSE workers[CHOOSE w \in prev : \A x \in prev : x <= w].idx
    IN [visitor |-> visitor_id, pc |-> "spawned", idx |-> at, reaps |-> 0, raised |-> FALSE]

\* the task start_background_task creates: it reads the CSV files itself and
\* iterates from their first row (lines 302-314)
NewWorker(visitor_id) ==
    [visitor |-> visitor_id, pc |-> "spawned", idx |-> 1, reaps |-> 0, raised |-> FALSE]

JoinStream(sid, visitor_id) ==
    /\ conn[sid] = "open"
    /\ LET r == handle_join_stream(sid, visitor_id) IN
        /\ r.spawn => NewThread \in WorkerIds
        /\ active_streams' = r.streams
        /\ socket_to_visitor' = r.s2v
        /\ rooms' = r.rooms
        /\ IF r.spawn
           THEN /\ workers' = Put(workers, NewThread, NewWorker(visitor_id))
                /\ events' = Put(events, NewThread, <<>>)
           ELSE UNCHANGED <<workers, events>>
        /\ last' = [op |-> "join_stream", sid |-> sid, visitor |-> visitor_id, reply |-> r.reply, to |-> {sid}]
    /\ UNCHANGED <<conn, request, response, aux_vars>>

\* ---- handle_disconnect ----
\* variant: the last disconnect deletes the session instead of marking it
handle_disconnect_delete(sid) ==
    IF sid \notin DOMAIN socket_to_visitor
    THEN [streams |-> active_streams, s2v |-> socket_to_visitor]
    ELSE LET visitor_id == socket_to_visitor[sid]
             left == IF visitor_id \in DOMAIN active_streams
                     THEN active_streams[visitor_id].socket_ids \ {sid}
                     ELSE {}
         IN [streams |->
                IF visitor_id \in DOMAIN active_streams
                THEN IF left = {}
                     THEN Remove(active_streams, visitor_id)
                     ELSE [active_streams EXCEPT ![visitor_id].socket_ids = left]
                ELSE active_streams,
             s2v |-> Remove(socket_to_visitor, sid)]

\* variant: lines 268-270 are missing, the status is never changed
handle_disconnect_noMark(sid) ==
    IF sid \notin DOMAIN socket_to_visitor
    THEN [streams |-> active_streams, s2v |-> socket_to_visitor]
    ELSE LET visitor_id == socket_to_visitor[sid]
         IN [streams |->
                IF visitor_id \in DOMAIN active_streams
                THEN [active_streams EXCEPT ![visitor_id].socket_ids = @ \ {sid}]
                ELSE active_streams,
             s2v |-> Remove(socket_to_visitor, sid)]

\* variant: the test of line 268 is missing, every disconnect marks the session
handle_disconnect_alwaysMark(sid) ==
    IF sid \notin DOMAIN socket_to_visitor
    THEN [streams |-> active_streams, s2v |-> socket_to_visitor]
    ELSE LET visitor_id == socket_to_visitor[sid]
         IN [streams |->
                IF visitor_id \in DOMAIN active_streams
                THEN [active_streams EXCEPT
                        ![visitor_id].socket_ids = @ \ {sid},
                        ![visitor_id].status = "cleanup"]
                ELSE active_streams,
             s2v |-> Remove(socket_to_visitor, sid)]

\* variant: no early return and no lookup; every session is swept and marked
\* when none of its sockets is still mapped to it
handle_disconnect_sweep(sid) ==
    [streams |->
        [v \in DOMAIN active_streams |->
            LET left == active_streams[v].socket_ids \ {sid}
                mapped == {s \in left : s \in DOMAIN socket_to_visitor
                                        /\ socket_to_visitor[s] = v}
            IN [active_streams[v] EXCEPT
                    !.socket_ids = left,
                    !.status = IF mapped = {} THEN "cleanup" ELSE @]],
     s2v |-> Remove(socket_to_visitor, sid)]

handle_disconnect(sid) ==
    IF sid \notin DOMAIN socket_to_visitor
    THEN [streams |-> active_streams, s2v |-> socket_to_visitor]
    ELSE LET visitor_id == socket_to_visitor[sid]
             left == IF visitor_id \in DOMAIN active_streams
                     THEN active_streams[visitor_id].socket_ids \ {sid}
                     ELSE {}
         IN [streams |->
                IF visitor_id \in DOMAIN active_streams
                THEN [active_streams EXCEPT
                        ![visitor_id].socket_ids = left,
                        ![visitor_id].status = IF left = {} THEN "cleanup" ELSE @]
                ELSE active_streams,
             s2v |-> Remove(socket_to_visitor, sid)]

Disconnect(sid) ==
    /\ conn[sid] = "open"
    /\ LET r == handle_disconnect(sid) IN
        /\ active_streams' = r.streams
        /\ socket_to_visitor' = r.s2v
    \* after the handler returns, Socket.IO takes the sid out of every room
    /\ rooms' = [v \in Visitors |-> rooms[v] \ {sid}]
    /\ conn' = [conn EXCEPT ![sid] = "closed"]
    /\ last' = [op |-> "disconnect", sid |-> sid,
                visitor |-> IF sid \in DOMAIN socket_to_visitor
                            THEN socket_to_visitor[sid] ELSE NoVisitor,
                reply |-> "none", to |-> {}]
    /\ UNCHANGED <<workers, events, request, response, aux_vars>>

\* ---- stream_predictions ----
\* socketio.emit(type, payload, room=visitor_id): the members of the room at
\* the time of the call receive the event
Recipients(visitor_id) == rooms[visitor_id]

\* the event is appended to what the worker has emitted so far
Emit(evs, type, rec) == Append(evs, [type |-> type, rec |-> rec])

\* variant: the finally block empties the whole registry
Reap_all(streams, visitor_id) == [v \in {} |-> 0]

\* variant: the finally block is missing
Reap_never(streams, visitor_id) == streams

\* finally block
Reap(streams, visitor_id) ==
    IF visitor_id \in DOMAIN streams THEN Remove(streams, visitor_id) ELSE streams

\* the thread leaves the try statement: the finally block runs and it returns
Finish(w, evs) ==
    [streams |-> Reap(active_streams, workers[w].visitor),
     wk |-> [workers[w] EXCEPT !.pc = "done", !.reaps = @ + 1],
     evs |-> evs]

\* lines 341-348, reached when the loop ends
Complete(w) ==
    Finish(w, Emit(events[w], "stream_complete", NRecords))

\* variant: the exception is handled inside the loop body, which reports it
\* and goes on with the next row
ErrorExit_skip(w) ==
    [streams |-> active_streams,
     wk |-> [workers[w] EXCEPT !.pc = "sleeping", !.idx = @ + 1],
     evs |-> Emit(events[w], "stream_error", 0)]

\* except block, lines 350-358
ErrorExit(w) ==
    Finish(w, Emit(events[w], "stream_error", 0))

\* an exception was raised inside the try statement
Raised(r) == [r EXCEPT !.wk.raised = TRUE]

\* variant: only a missing session stops the loop, the status is not read
StopRequested_onlyMissing(w) ==
    workers[w].visitor \notin DOMAIN active_streams

\* lines 316-317
StopRequested(w) ==
    \/ workers[w].visitor \notin DOMAIN active_streams
    \/ active_streams[workers[w].visitor].status = "cleanup"

\* variant: the worker waits for the session to become active again
StopEarly_wait(w) ==
    [streams |-> active_streams, wk |-> workers[w], evs |-> events[w]]

\* variant: the early stop returns without the completion event
StopEarly_silent(w) == Finish(w, events[w])

\* lines 318-319: break leaves the loop; control falls through to line 341
StopEarly(w) == Complete(w)

\* one pass of the for statement, from fetching row i to the sleep
LoopIter(w, i, predictOk) ==
    IF i > NRecords THEN Complete(w)
    ELSE IF StopRequested(w) THEN StopEarly(w)
    ELSE IF predictOk
    THEN [streams |-> active_streams,
          wk |-> [workers[w] EXCEPT !.pc = "sleeping", !.idx = i + 1],
          evs |-> Emit(events[w], "prediction", RowAt(i))]
    ELSE Raised(ErrorExit(w))

Apply(w, r) ==
    /\ active_streams' = r.streams
    /\ workers' = [workers EXCEPT ![w] = r.wk]
    /\ events' = [events EXCEPT ![w] = r.evs]
    /\ last' = IF r.evs = events[w] THEN last
               ELSE [op |-> "emit", sid |-> "", visitor |-> workers[w].visitor,
                     reply |-> r.evs[Len(r.evs)].type,
                     to |-> Recipients(workers[w].visitor)]
    /\ UNCHANGED <<conn, socket_to_visitor, rooms, request, response, aux_vars>>

\* the task starts: load and merge the CSV files, then the first iteration
WorkerStart(w) ==
    /\ w \in DOMAIN workers
    /\ workers[w].pc = "spawned"
    /\ \E loadOk \in BOOLEAN, predictOk \in BOOLEAN :
        Apply(w, IF loadOk THEN LoopIter(w, 1, predictOk) ELSE Raised(ErrorExit(w)))

\* eventlet.sleep returns: the next iteration, or the end of the loop
WorkerStep(w) ==
    /\ w \in DOMAIN workers
    /\ workers[w].pc = "sleeping"
    /\ \E predictOk \in BOOLEAN :
        Apply(w, LoopIter(w, workers[w].idx, predictOk))

Next ==
    \/ \E sid \in Sids : Connect(sid)
    \/ \E sid \in Sids, visitor_id \in Visitors \cup {NoVisitor} : JoinStream(sid, visitor_id)
    \/ \E sid \in Sids : Disconnect(sid)
    \/ \E w \in WorkerIds : WorkerStart(w)
    \/ \E w \in WorkerIds : WorkerStep(w)

Spec == Init /\ [][Next]_vars

\* the scheduler runs every task that is ready: a started task begins, and a
\* task whose eventlet.sleep has elapsed resumes
FairSpec ==
    /\ Init /\ [][Next]_vars
    /\ \A w \in WorkerIds : WF_vars(WorkerStart(w)) /\ WF_vars(WorkerStep(w))

\* ---- POST /predict ----
\* FraudDetector.preprocess: the exception its column accesses raise, if any
preprocess(fields) ==
    IF "card1" \notin fields THEN "KeyError"                 \* df['card1']
    ELSE IF "addr1" \notin fields THEN "KeyError"            \* df['addr1']
    ELSE IF "TransactionAmt" \notin fields THEN "KeyError"   \* df['TransactionAmt']
    ELSE IF "cat_cols" \notin fields THEN "KeyError"         \* df[self.cat_cols]
    ELSE "ok"

\* FraudDetector.predict: "ok" or the class of the exception that leaves it
detector_predict(req) ==
    IF preprocess(req.fields) # "ok" THEN preprocess(req.fields) ELSE req.outcome

\* the predict route
predict(req) ==
    IF ~req.is_json
    THEN [status |-> 400, success |-> FALSE, data |-> "none", invoked |-> FALSE]
    ELSE IF req.body # "object"
    THEN [status |-> 400, success |-> FALSE, data |-> "none", invoked |-> FALSE]
    ELSE LET raised == detector_predict(req) IN
        IF raised = "ok"
        THEN [status |-> 200, success |-> TRUE, data |-> "result", invoked |-> TRUE]
        ELSE IF raised = "ValueError"
        THEN [status |-> 422, success |-> FALSE, data |-> "none", invoked |-> TRUE]
        ELSE [status |-> 500, success |-> FALSE, data |-> "none", invoked |-> TRUE]

\* a client posts a payload
Receive(req) ==
    /\ request = NoRequest \/ response # NoResponse
    /\ request' = req
    /\ response' = NoResponse
    /\ UNCHANGED <<stream_vars, aux_vars>>

\* the route answers it
Respond ==
    /\ request # NoRequest
    /\ response = NoResponse
    /\ response' = predict(request)
    /\ UNCHANGED <<request, stream_vars, aux_vars>>

PredictNext ==
    \/ \E req \in Requests : Receive(req)
    \/ Respond

PredictSpec == Init /\ [][PredictNext]_vars

\* ---- FraudDetector.predict, predict_batch ----
\* prob > 0.8, prob > 0.5: comparison of prob / ProbScale with tenths / 10
Above(prob, tenths) == 10 * prob > tenths * ProbScale

\* variant: the thresholds themselves belong to the higher class
_get_risk_level_inclusive(prob) ==
    IF 10 * prob >= 8 * ProbScale THEN "CRITICAL"
    ELSE IF 10 * prob >= 5 * ProbScale THEN "HIGH"
    ELSE "LOW"

_get_risk_level(prob) ==
    IF Above(prob, 8) THEN "CRITICAL"
    ELSE IF Above(prob, 5) THEN "HIGH"
    ELSE "LOW"

\* round(prob, 4), in units of 1/10000: the nearest multiple of 1/10000
round4(prob) == (2 * 10000 * prob + ProbScale) \div (2 * ProbScale)

\* the dictionary FraudDetector.predict returns when the model answers prob
FraudDetector_predict(prob) ==
    [fraud_probability |-> round4(prob),            \* in units of 1/10000
     risk_level |-> _get_risk_level(prob),
     status |-> IF Above(prob, 5) THEN "DENY" ELSE "APPROVE"]

\* the rows predict_batch returns when the model answers probs
predict_batch(probs) ==
    [i \in DOMAIN probs |->
        [fraud_probability |-> probs[i],            \* in units of 1/ProbScale
         risk_level |-> _get_risk_level(probs[i]),
         status |-> IF Above(probs[i], 5) THEN "DENY" ELSE "APPROVE"]]

\* the model's answers for a two-row batch whose first row is the record
BatchOf(prob) == <<prob, ProbScale - prob>>

\* predict(record)
PredictOne ==
    /\ score.prob \in Probs
    /\ score.single = NoResult
    /\ score' = [score EXCEPT !.single = FraudDetector_predict(score.prob)]
    /\ UNCHANGED <<stream_vars, request, response, transform, detector, hub>>

\* predict_batch(frame)
PredictBatch ==
    /\ score.prob \in Probs
    /\ score.batch = <<>>
    /\ score' = [score EXCEPT !.batch = predict_batch(BatchOf(score.prob))]
    /\ UNCHANGED <<stream_vars, request, response, transform, detector, hub>>

ScoreInit ==
    /\ BaseInit
    /\ score \in [prob : Probs, single : {NoResult}, batch : {<<>>}]
    /\ transform = NoTransform
    /\ detector = NoDetector
    /\ hub = NoHub

ScoreNext == PredictOne \/ PredictBatch

ScoreSpec == ScoreInit /\ [][ScoreNext]_vars

\* ---- FraudDetector.preprocess ----
Range(seq) == {seq[i] : i \in DOMAIN seq}
Column(df, c) == [i \in DOMAIN df.rows |-> df.rows[i][c]]
\* pd.DataFrame([input_data]) or input_data.copy(): a new frame with the same cells
Frame(input_data) == [columns |-> input_data.columns, rows |-> input_data.rows]

\* variant: the caller's frame is the frame the steps write to
CallerInput_alias(input_data, df) ==
    [is_dict |-> input_data.is_dict, columns |-> df.columns, rows |-> df.rows]

\* the caller's object after the call: every write went to the new frame
CallerInput(input_data, df) == input_data

\* col.fillna('MISSING').astype(str): a float column (one with NaN) prints 100.0
fillna_astype_str(col) ==
    LET float == \E i \in DOMAIN col : col[i] = NaN IN
    [i \in DOMAIN col |->
        IF col[i] = NaN THEN "MISSING"
        ELSE IF col[i][1] = "str" THEN col[i][2]
        ELSE IF float THEN ToString(col[i][2]) \o ".0"
        ELSE ToString(col[i][2])]

\* get_stat: self.card_stats[card_id].get(metric, np.nan), np.nan for an unknown card
get_stat(self, card_id, metric) ==
    IF card_id[1] = "num" /\ card_id[2] \in DOMAIN self.card_stats
    THEN IF metric \in DOMAIN self.card_stats[card_id[2]]
         THEN Num(self.card_stats[card_id[2]][metric])
         ELSE NaN
    ELSE NaN

\* float division of two cells (statistics are not negative)
Div(a, b) ==
    IF a[1] # "num" \/ b[1] # "num" THEN NaN
    ELSE IF b[2] = 0
    THEN IF a[2] = 0 THEN NaN ELSE Inf(IF a[2] > 0 THEN 1 ELSE -1)
    ELSE IF a[2] % b[2] = 0 THEN Num(a[2] \div b[2])
    ELSE Frac(a[2], b[2])

\* variant: only the missing values are replaced
clean_fillnaOnly(col) ==
    [i \in DOMAIN col |-> IF col[i] = NaN THEN Num(Sentinel) ELSE col[i]]

\* col.replace([np.inf, -np.inf], -999).fillna(-999)
clean(col) ==
    [i \in DOMAIN col |->
        IF col[i][1] \in {"inf", "nan"} THEN Num(Sentinel) ELSE col[i]]

\* pd.factorize(texts)[0]: codes in the order of first appearance in this call
factorize(texts) ==
    LET First(i) == CHOOSE j \in DOMAIN texts :
                        /\ texts[j] = texts[i]
                        /\ \A k \in DOMAIN texts : texts[k] = texts[i] => j <= k
    IN [i \in DOMAIN texts |->
            Num(Cardinality({texts[j] : j \in 1..(First(i) - 1)}))]

\* columns of dtype object: those that hold a string
ObjectCols(df) ==
    {c \in df.columns : \E i \in DOMAIN df.rows : df.rows[i][c][1] = "str"}

\* df[cols] = newcols, for a function newcols from column names to columns
SetColumns(df, newcols) ==
    [columns |-> df.columns \cup DOMAIN newcols,
     rows |-> [i \in DOMAIN df.rows |->
                [c \in df.columns \cup DOMAIN newcols |->
                    IF c \in DOMAIN newcols THEN newcols[c][i] ELSE df.rows[i][c]]]]

\* df[self.cat_cols].fillna('MISSING').astype(str)
CatTexts(self, df) == [c \in self.cat_cols |-> fillna_astype_str(Column(df, c))]

\* self.encoder.transform: an OrdinalEncoder with handle_unknown='error'
\* raises ValueError on a category it was not fitted on
encoder_raises(self, texts) ==
    /\ self.handle_unknown = "error"
    /\ \E c \in DOMAIN texts : \E i \in DOMAIN texts[c] :
          texts[c][i] \notin DOMAIN self.encoder[c]

\* self.encoder.transform: the ordinal of each category, -1 for an unseen one
encoder_transform(self, texts) ==
    [c \in DOMAIN texts |->
        [i \in DOMAIN texts[c] |->
            IF texts[c][i] \in DOMAIN self.encoder[c]
            THEN Num(self.encoder[c][texts[c][i]])
            ELSE Num(-1)]]

\* variant: the columns are selected without the closing fillna
Align_noFill(self, df) ==
    [columns |-> self.final_columns,
     rows |-> [i \in DOMAIN df.rows |->
                [c \in Range(self.final_columns) |->
                    IF c \notin df.columns THEN Num(Sentinel) ELSE df.rows[i][c]]]]

\* missing columns are set to -999; return df[self.final_columns].fillna(-999)
Align(self, df) ==
    [columns |-> self.final_columns,
     rows |-> [i \in DOMAIN df.rows |->
                [c \in Range(self.final_columns) |->
                    IF c \notin df.columns THEN Num(Sentinel)
                    ELSE IF df.rows[i][c] = NaN THEN Num(Sentinel)
                    ELSE df.rows[i][c]]]]

\* Op applied to the value of v, which is computed once
Eval(v, Op(_)) == CHOOSE r \in {Op(x) : x \in {v}} : TRUE

\* lines 117-119 and 130-131: uid1 and the statistics of the card
Engineer(self, df) ==
    LET c1 == fillna_astype_str(Column(df, "card1"))
        a1 == fillna_astype_str(Column(df, "addr1"))
    IN SetColumns(df,
        ("uid1" :> [i \in DOMAIN df.rows |-> Str(c1[i] \o "_" \o a1[i])])
        @@ ("card1_mean" :>
                [i \in DOMAIN df.rows |-> get_stat(self, df.rows[i]["card1"], "mean")])
        @@ ("card1_std" :>
                [i \in DOMAIN df.rows |-> get_stat(self, df.rows[i]["card1"], "std")]))

\* lines 135-140: the two ratios, cleaned
Ratios(df) ==
    SetColumns(df,
        ("TransactionAmt_to_mean_card1" :>
            clean([i \in DOMAIN df.rows |->
                    Div(df.rows[i]["TransactionAmt"], df.rows[i]["card1_mean"])]))
        @@ ("TransactionAmt_to_std_card1" :>
            clean([i \in DOMAIN df.rows |->
                    Div(df.rows[i]["TransactionAmt"], df.rows[i]["card1_std"])])))

\* line 144: the categorical columns as text
CatAsText(self, df) ==
    SetColumns(df, [c \in self.cat_cols |->
                        [i \in DOMAIN df.rows |-> Str(CatTexts(self, df)[c][i])]])

\* lines 151-153: the text columns of final_columns that are left
Factorized(self, df) ==
    SetColumns(df, [c \in ObjectCols(df) \cap Range(self.final_columns) |->
                        factorize(fillna_astype_str(Column(df, c)))])

\* what a call that raises e leaves behind
Failed(self, input_data, e, df) ==
    [raised |-> e, out |-> NoFrame, uid1 |-> <<>>, self |-> self,
     input_data |-> CallerInput(input_data, df)]

\* preprocess(self, input_data): the exception raised ("none" when it returns),
\* the returned frame, the uid1 column as built, and self and the caller's
\* input as the call leaves them
FraudDetector_preprocess(self, input_data) ==
    Eval(Frame(input_data), LAMBDA df :
    IF "card1" \notin df.columns \/ "addr1" \notin df.columns
    THEN Failed(self, input_data, "KeyError", df)
    ELSE Eval(Engineer(self, df), LAMBDA df3 :
    IF "TransactionAmt" \notin df3.columns
    THEN Failed(self, input_data, "KeyError", df3)
    ELSE Eval(Ratios(df3), LAMBDA df4 :
    IF ~(self.cat_cols \subseteq df4.columns)
    THEN Failed(self, input_data, "KeyError", df4)
    ELSE Eval(CatAsText(self, df4), LAMBDA df5 :
    IF encoder_raises(self, CatTexts(self, df4))
    THEN Failed(self, input_data, "ValueError", df5)
    ELSE Eval(SetColumns(df5, encoder_transform(self, CatTexts(self, df4))), LAMBDA df6 :
         Eval(Factorized(self, df6), LAMBDA df7 :
            [raised |-> "none", out |-> Align(self, df7), uid1 |-> Column(df3, "uid1"),
             self |-> self, input_data |-> CallerInput(input_data, df7)]))))))

\* inputs of the calls made between two calls on the same input
OtherInputs ==
    {[is_dict |-> TRUE, columns |-> {"card1", "addr1", "TransactionAmt", "ProductCD"},
      rows |-> <<[card1 |-> Num(9999), addr1 |-> NaN, TransactionAmt |-> Num(100),
                  ProductCD |-> Str("Z")]>>],
     [is_dict |-> FALSE,
      columns |-> {"card1", "addr1", "TransactionAmt", "ProductCD", "DeviceInfo", "dist1"},
      rows |-> <<[card1 |-> Num(1234), addr1 |-> Num(100), TransactionAmt |-> Num(25),
                  ProductCD |-> Str("W"), DeviceInfo |-> Str("Android"), dist1 |-> NaN],
                 [card1 |-> NaN, addr1 |-> Num(100), TransactionAmt |-> Num(100),
                  ProductCD |-> Str("W"), DeviceInfo |-> Str("iOS"), dist1 |-> NaN]>>]}

MaxCalls == 3       \* calls of preprocess on one detector

\* one call det.preprocess(x)
Call(x) ==
    Eval(FraudDetector_preprocess(transform.self, x), LAMBDA r :
        [transform EXCEPT !.self = r.self, !.calls = @ + 1, !.arg = x,
                          !.passed = r.input_data,
                          !.result = [raised |-> r.raised, out |-> r.out, uid1 |-> r.uid1]])

\* the first call on the caller's input
Transform ==
    /\ transform.input_data # NoInput
    /\ transform.calls = 0
    /\ \E t \in {Call(transform.input_data)} :
        transform' = [t EXCEPT !.input_data = t.passed,
                               !.first = [arg |-> t.arg, result |-> t.result]]
    /\ UNCHANGED <<stream_vars, request, response, score, detector, hub>>

\* a call on some other input
TransformOther(x) ==
    /\ transform.calls \in 1..(MaxCalls - 1)
    /\ transform' = [Call(x) EXCEPT !.others = @ + 1]
    /\ UNCHANGED <<stream_vars, request, response, score, detector, hub>>

\* a later call on the caller's input
TransformAgain ==
    /\ transform.calls \in 1..(MaxCalls - 1)
    /\ \E t \in {Call(transform.input_data)} :
        transform' = [t EXCEPT !.input_data = t.passed]
    /\ UNCHANGED <<stream_vars, request, response, score, detector, hub>>

PreprocessInit ==
    /\ BaseInit
    /\ score = NoScore
    /\ detector = NoDetector
    /\ hub = NoHub
    /\ transform \in {[NoTransform EXCEPT !.self = d, !.input_data = x] :
                        d \in Detectors, x \in Inputs}

PreprocessNext ==
    \/ Transform
    \/ \E x \in OtherInputs : TransformOther(x)
    \/ TransformAgain

PreprocessSpec == PreprocessInit /\ [][PreprocessNext]_vars

\* ---- get_detector ----
\* variant: a detector is built on every call
get_detector_eager(d, loadOk) ==
    IF loadOk
    THEN [instance |-> d.built + 1, built |-> d.built + 1, returned |-> d.built + 1]
    ELSE [instance |-> d.instance, built |-> d.built, returned |-> 0]

\* get_detector with the global in state d; loadOk: FraudDetector(...) returns
\* (it raises when no artifact can be loaded, and the global stays None).
\* No call in it yields to another green thread, so it runs as one step.
get_detector(d, loadOk) ==
    IF d.instance = 0
    THEN IF loadOk
         THEN [instance |-> d.built + 1, built |-> d.built + 1, returned |-> d.built + 1]
         ELSE [instance |-> 0, built |-> d.built, returned |-> 0]
    ELSE [instance |-> d.instance, built |-> d.built, returned |-> d.instance]

\* a caller runs det = get_detector()
Get(c, loadOk) ==
    /\ detector.gets[c] < MaxGets
    /\ LET r == get_detector(detector, loadOk) IN
        detector' = [instance |-> r.instance, built |-> r.built,
                     handed |-> [detector.handed EXCEPT ![c] = r.returned],
                     gets |-> [detector.gets EXCEPT ![c] = @ + 1]]
    /\ UNCHANGED <<stream_vars, request, response, score, transform, hub>>

\* POST /predict
PredictGets == \E loadOk \in BOOLEAN : Get(0, loadOk)

\* an iteration of stream_predictions
WorkerGets(w) == \E loadOk \in BOOLEAN : Get(w, loadOk)

DetectorNext ==
    \/ PredictGets
    \/ \E w \in WorkerIds : WorkerGets(w)

DetectorSpec == Init /\ [][DetectorNext]_vars

\* ---- HuggingFaceDownloader.download_artifact, download_all_artifacts ----
\* variant: a failed download raises although the file is cached
download_artifact_noFallback(h, filename) ==
    IF filename \in h.cached /\ ~h.force
    THEN [cached |-> h.cached, contacted |-> {}, result |-> "path"]
    ELSE IF filename \in h.remote
    THEN [cached |-> h.cached \cup {filename}, contacted |-> {filename}, result |-> "path"]
    ELSE [cached |-> h.cached, contacted |-> {filename}, result |-> "raise"]

\* download_artifact: the cache afterwards, whether the remote store was
\* asked, and "path" (local_path is returned) or "raise"
download_artifact(h, filename) ==
    IF filename \in h.cached /\ ~h.force
    THEN [cached |-> h.cached, contacted |-> {}, result |-> "path"]
    ELSE IF filename \in h.remote          \* hf_hub_download and the copy succeed
    THEN [cached |-> h.cached \cup {filename}, contacted |-> {filename}, result |-> "path"]
    ELSE IF filename \in h.cached          \* except: the cached file is used
    THEN [cached |-> h.cached, contacted |-> {filename}, result |-> "path"]
    ELSE [cached |-> h.cached, contacted |-> {filename}, result |-> "raise"]

\* the loop of download_all_artifacts from the i-th file on; paths are the
\* keys of the dictionary it returns
RECURSIVE download_from(_, _, _, _)
download_from(h, i, contacted, downloaded) ==
    IF i > Len(artifacts)
    THEN [cached |-> h.cached, contacted |-> contacted, result |-> "path",
          paths |-> downloaded]
    ELSE LET r == download_artifact(h, artifacts[i]) IN
         IF r.result = "raise"             \* raise RuntimeError
         THEN [cached |-> r.cached, contacted |-> contacted \cup r.contacted,
               result |-> "raise", paths |-> {}]
         ELSE download_from([h EXCEPT !.cached = r.cached], i + 1,
                            contacted \cup r.contacted, downloaded \cup {artifacts[i]})

download_all_artifacts(h) == download_from(h, 1, {}, {})

\* ---- FraudDetector._load_local_artifacts, _load_from_huggingface ----
\* where the five attributes come from; "failed": joblib.load raised
_load_local_artifacts(h) == IF h.local THEN "local" ELSE "failed"

_load_from_huggingface(h) ==
    IF h.hf = "ImportError"                \* except ImportError
    THEN [cached |-> h.cached, contacted |-> {}, source |-> _load_local_artifacts(h)]
    ELSE LET r == download_all_artifacts(h) IN
         [cached |-> r.cached, contacted |-> r.contacted,
          source |-> IF r.result = "raise" \/ h.hf = "load_error"   \* except Exception
                     THEN _load_local_artifacts(h)
                     ELSE "huggingface"]

\* downloader.download_artifact(filename)
DownloadArtifact(filename) ==
    /\ LET r == download_artifact(hub, filename) IN
        hub' = [hub EXCEPT !.cached = r.cached,
                           !.did = [op |-> "download_artifact", file |-> filename,
                                    before |-> hub.cached, contacted |-> r.contacted,
                                    result |-> r.result,
                                    paths |-> IF r.result = "path" THEN {filename} ELSE {},
                                    source |-> "none"]]
    /\ UNCHANGED <<stream_vars, request, response, score, transform, detector>>

\* downloader.download_all_artifacts()
DownloadAll ==
    /\ LET r == download_all_artifacts(hub) IN
        hub' = [hub EXCEPT !.cached = r.cached,
                           !.did = [op |-> "download_all_artifacts", file |-> "",
                                    before |-> hub.cached, contacted |-> r.contacted,
                                    result |-> r.result, paths |-> r.paths,
                                    source |-> "none"]]
    /\ UNCHANGED <<stream_vars, request, response, score, transform, detector>>

\* FraudDetector(artifact_path, hf_repo_id)
LoadFromHuggingFace ==
    /\ LET r == _load_from_huggingface(hub) IN
        hub' = [hub EXCEPT !.cached = r.cached,
                           !.did = [op |-> "_load_from_huggingface", file |-> "",
                                    before |-> hub.cached, contacted |-> r.contacted,
                                    result |-> IF r.source = "failed" THEN "raise" ELSE "loaded",
                                    paths |-> {}, source |-> r.source]]
    /\ UNCHANGED <<stream_vars, request, response, score, transform, detector>>

HubInit ==
    /\ BaseInit
    /\ score = NoScore
    /\ transform = NoTransform
    /\ detector = NoDetector
    /\ hub \in [cached : SUBSET Artifacts, remote : SUBSET Artifacts, force : BOOLEAN,
                local : BOOLEAN, hf : {"ok", "ImportError", "load_error"},
                did : {NoRetrieval}]

HubNext ==
    \/ \E filename \in Artifacts : DownloadArtifact(filename)
    \/ DownloadAll
    \/ LoadFromHuggingFace

HubSpec == HubInit /\ [][HubNext]_vars

TypeOK ==
    /\ conn \in [Sids -> {"new", "open", "closed"}]
    /\ DOMAIN active_streams \subseteq Visitors
    /\ DOMAIN socket_to_visitor \subseteq Sids
    /\ DOMAIN workers \subseteq WorkerIds
    /\ DOMAIN events = DOMAIN workers
    /\ request \in Requests \cup {NoRequest}
    /\ response.status \in {0, 200, 400, 422, 500}

\* ---- properties ----
Predictions(w) == SelectSeq(events[w], LAMBDA e : e.type = "prediction")
Registered(w) == \E v \in DOMAIN active_streams : active_streams[v].thread = w
Terminates(w) == workers[w].pc # "done" /\ workers'[w].pc = "done"
Disconnects(s) == conn[s] = "open" /\ conn'[s] = "closed"

\* C1: at most one live worker per visitor_id, and an active session's only
\* live worker is the thread that was started for it.
OneWorkerPerVisitor ==
    /\ \A v \in Visitors : Cardinality(LiveFor(v)) <= 1
    /\ \A v \in DOMAIN active_streams :
        active_streams[v].status = "active" => LiveFor(v) = {active_streams[v].thread}

\* a second connection has joined an existing active session
C1_Witness ==
    /\ last.op = "join_stream" /\ last.reply = "joined_existing_stream"
    /\ last.visitor \in DOMAIN active_streams
    /\ active_streams[last.visitor].status = "active"
    /\ Cardinality(active_streams[last.visitor].socket_ids) = 2
    /\ LiveFor(last.visitor) = {active_streams[last.visitor].thread}

\* C2: the step in which a worker terminates leaves every session that was
\* not started with that worker registered and unchanged.
ReapOnlyOwnSession ==
    [][\A w \in DOMAIN workers :
        Terminates(w) =>
            \A v \in DOMAIN active_streams :
                active_streams[v].thread # w =>
                    v \in DOMAIN active_streams' /\ active_streams'[v] = active_streams[v]]_vars

\* an old worker of a visitor_id has terminated and a newer session of the
\* same visitor_id is registered
C2_Witness ==
    \E w \in DOMAIN workers :
        /\ workers[w].pc = "done"
        /\ workers[w].visitor \in DOMAIN active_streams
        /\ active_streams[workers[w].visitor].thread # w

\* C3: the k-th prediction event of a worker carries the k-th source record.
PredictionsInSourceOrder ==
    \A w \in DOMAIN events :
        \A k \in 1..Len(Predictions(w)) : Predictions(w)[k].rec = TransactionID(k)

\* a worker has emitted a prediction for every record
C3_Witness ==
    \E w \in DOMAIN events : Len(Predictions(w)) = NRecords /\ NRecords > 1

\* C4: a terminated worker has run its finally block exactly once and its
\* session is no longer registered; a worker that has not terminated has not
\* run it.
ReapExactlyOnce ==
    \A w \in DOMAIN workers :
        IF workers[w].pc = "done"
        THEN workers[w].reaps = 1 /\ ~Registered(w)
        ELSE workers[w].reaps = 0

\* one worker has terminated on the error path and another one after it saw
\* the cleanup request, before the source was exhausted
C4_Witness ==
    \E w1, w2 \in DOMAIN workers :
        /\ workers[w1].pc = "done" /\ workers[w2].pc = "done"
        /\ events[w1][Len(events[w1])].type = "stream_error"
        /\ events[w2][Len(events[w2])].type = "stream_complete"
        /\ Len(Predictions(w2)) < NRecords

\* C5: under fair scheduling of the tasks every worker that is started
\* terminates with its session removed from the registry: from some point on
\* no started worker is live or still registered (a terminated worker stays
\* terminated, so this is "started leads to terminated" for each worker).
NoLeakedWorker ==
    <>[](\A w \in DOMAIN workers : workers[w].pc = "done" /\ ~Registered(w))

\* all started workers have terminated and the registry is empty again after
\* a connection joined and disconnected
C5_Witness ==
    /\ DOMAIN workers = WorkerIds
    /\ \A w \in DOMAIN workers : workers[w].pc = "done"
    /\ DOMAIN active_streams = {}
    /\ \E s \in Sids : conn[s] = "closed"

\* C6: a registered session with status 'active' has a subscriber.
ActiveHasSubscriber ==
    \A v \in DOMAIN active_streams :
        active_streams[v].status = "active" => active_streams[v].socket_ids # {}

\* a mapped connection has disconnected from a session that stays active
C6_Witness ==
    /\ last.op = "disconnect"
    /\ last.visitor \in DOMAIN active_streams
    /\ active_streams[last.visitor].status = "active"

\* C7: every member of a session's subscriber set is mapped to that session's
\* visitor_id (so it is in the subscriber set of one visitor_id only).
OneSessionPerConnection ==
    \A v \in DOMAIN active_streams :
        \A s \in active_streams[v].socket_ids :
            s \in DOMAIN socket_to_visitor /\ socket_to_visitor[s] = v

\* C8: a disconnected connection is in no subscriber set and has no entry in
\* socket_to_visitor.
DisconnectDetaches ==
    \A s \in Sids :
        conn[s] = "closed" =>
            /\ s \notin DOMAIN socket_to_visitor
            /\ \A v \in DOMAIN active_streams : s \notin active_streams[v].socket_ids

\* C9: a disconnect of a connection mapped to a registered session leaves the
\* session registered with the same running worker; the status becomes
\* 'cleanup' when the subscriber set is empty afterwards and is unchanged
\* otherwise.
DisconnectMarksCleanup ==
    [][\A s \in Sids :
        (Disconnects(s) /\ s \in DOMAIN socket_to_visitor
            /\ socket_to_visitor[s] \in DOMAIN active_streams) =>
            LET v == socket_to_visitor[s] IN
                /\ v \in DOMAIN active_streams'
                /\ active_streams'[v].thread = active_streams[v].thread
                /\ active_streams[v].thread \in Live
                /\ workers' = workers
                /\ active_streams'[v].status =
                        IF active_streams'[v].socket_ids = {}
                        THEN "cleanup" ELSE active_streams[v].status]_vars

\* the last subscriber has disconnected: the session is registered, marked
\* and its worker has not terminated
C9_Witness ==
    /\ last.op = "disconnect"
    /\ last.visitor \in DOMAIN active_streams
    /\ active_streams[last.visitor].socket_ids = {}
    /\ active_streams[last.visitor].status = "cleanup"
    /\ active_streams[last.visitor].thread \in Live

\* C10: a disconnect of a connection without an entry in socket_to_visitor
\* changes neither active_streams nor socket_to_visitor.
DisconnectUnknownNoop ==
    [][\A s \in Sids :
        (Disconnects(s) /\ s \notin DOMAIN socket_to_visitor) =>
            UNCHANGED <<active_streams, socket_to_visitor>>]_vars

\* a connection that never joined has disconnected while a session exists
C10_Witness ==
    /\ last.op = "disconnect" /\ last.visitor = NoVisitor
    /\ DOMAIN active_streams # {}
    /\ DOMAIN socket_to_visitor # {}

\* C11: a join_stream of a connection that is already a subscriber of the
\* session of that visitor_id (and mapped to it) changes nothing: registry,
\* subscriber sets, statuses, connection map, rooms and workers stay as they
\* are, and the reply is joined_existing_stream.
JoinIdempotent ==
    [][(/\ last' # last
        /\ last'.op = "join_stream"
        /\ last'.visitor \in DOMAIN active_streams
        /\ last'.sid \in active_streams[last'.visitor].socket_ids
        /\ last'.sid \in DOMAIN socket_to_visitor
        /\ socket_to_visitor[last'.sid] = last'.visitor)
       => /\ UNCHANGED <<active_streams, socket_to_visitor, rooms, workers, events>>
          /\ last'.reply = "joined_existing_stream"]_vars

\* the only subscriber of a session that was never emptied has joined again
C11_Witness ==
    /\ last.op = "join_stream" /\ last.reply = "joined_existing_stream"
    /\ last.visitor \in DOMAIN active_streams
    /\ active_streams[last.visitor].status = "active"
    /\ active_streams[last.visitor].socket_ids = {last.sid}
    /\ socket_to_visitor[last.sid] = last.visitor

Terminal(e) == e.type \in {"stream_complete", "stream_error"}
PredCount(evs) == Len(SelectSeq(evs, LAMBDA e : e.type = "prediction"))

\* C12: a worker in which an exception was raised has terminated and reaped
\* its session; its stream_error event is its last event and its only
\* terminal one, so no prediction and no stream_complete follows the error.
ErrorIsStreamFatal ==
    \A w \in DOMAIN workers :
        workers[w].raised =>
            /\ workers[w].pc = "done" /\ ~Registered(w)
            /\ events[w] # <<>>
            /\ events[w][Len(events[w])].type = "stream_error"
            /\ \A k \in 1..(Len(events[w]) - 1) : events[w][k].type = "prediction"

\* scoring the second record failed after the first prediction was emitted
C12_Witness ==
    \E w \in DOMAIN workers :
        /\ workers[w].raised
        /\ Len(events[w]) = 2
        /\ events[w][1].type = "prediction"

\* C13: a stream_complete event is emitted only by a worker that has emitted
\* a prediction for every record, and its total is the number of predictions
\* that worker emitted.
CompleteOnlyOnExhaustion ==
    \A w \in DOMAIN events :
        \A k \in 1..Len(events[w]) :
            events[w][k].type = "stream_complete" =>
                /\ Len(Predictions(w)) = NRecords
                /\ events[w][k].rec = Len(Predictions(w))

\* C14: a terminated worker has emitted exactly one terminal event, as its
\* last event; a worker that has not terminated has emitted none.
OneTerminalEvent ==
    \A w \in DOMAIN workers :
        {k \in 1..Len(events[w]) : Terminal(events[w][k])} =
            IF workers[w].pc = "done" THEN {Len(events[w])} ELSE {}

\* a worker has emitted a prediction for every record and then its
\* completion event
C14_Witness ==
    \E w \in DOMAIN workers :
        /\ workers[w].pc = "done"
        /\ Len(events[w]) = NRecords + 1
        /\ events[w][NRecords + 1].type = "stream_complete"

\* C15: once the status of its session is 'cleanup', the next step of the
\* worker is its last one and emits no prediction (so at most one further
\* prediction follows the request).
CancellationBounded ==
    [][\A w \in DOMAIN workers :
        (/\ workers[w].pc # "done"
         /\ workers[w].visitor \in DOMAIN active_streams
         /\ active_streams[workers[w].visitor].status = "cleanup"
         /\ workers'[w] # workers[w])
        => /\ workers'[w].pc = "done"
           /\ PredCount(events'[w]) = PredCount(events[w])]_vars

\* a worker that had emitted one prediction has seen the request at its next
\* check and stopped before the second record
C15_Witness ==
    /\ last.op = "emit" /\ last.reply = "stream_complete"
    /\ \E w \in DOMAIN workers :
        /\ workers[w].visitor = last.visitor
        /\ workers[w].pc = "done" /\ ~workers[w].raised
        /\ events[w][Len(events[w])].type = "stream_complete"
        /\ Len(Predictions(w)) = 1 /\ NRecords > 1

\* C16: a prediction event is delivered to exactly the open connections of
\* the subscriber set of its session.
DeliveredToSubscribersOnly ==
    (last.op = "emit" /\ last.reply = "prediction") =>
        /\ last.visitor \in DOMAIN active_streams
        /\ last.to = {s \in active_streams[last.visitor].socket_ids : conn[s] = "open"}

\* C17: every event of a worker is delivered to every open connection that
\* is mapped to the worker's visitor_id or is in its session's subscriber set.
EveryJoinerReceives ==
    last.op = "emit" =>
        \A s \in Sids :
            (/\ conn[s] = "open"
             /\ \/ (s \in DOMAIN socket_to_visitor /\ socket_to_visitor[s] = last.visitor)
                \/ (/\ last.visitor \in DOMAIN active_streams
                    /\ s \in active_streams[last.visitor].socket_ids))
            => s \in last.to

\* a prediction has been delivered to the two connections of one session
C17_Witness ==
    /\ last.op = "emit" /\ last.reply = "prediction"
    /\ Cardinality(last.to) = 2
    /\ last.visitor \in DOMAIN active_streams
    /\ active_streams[last.visitor].socket_ids = last.to
    /\ \A s \in last.to : conn[s] = "open" /\ socket_to_visitor[s] = last.visitor

\* C18: a join_stream for a visitor_id without a registered session creates
\* an active session whose only subscriber is the joining connection, starts
\* one new worker with nothing emitted that reads from the first record,
\* replies stream_started and leaves what other workers emitted unchanged;
\* the first prediction of any worker is for the first record.
RejoinStartsFresh ==
    [][/\ \A v \in Visitors :
            (v \notin DOMAIN active_streams /\ v \in DOMAIN active_streams') =>
                LET t == active_streams'[v].thread IN
                /\ last'.op = "join_stream" /\ last'.reply = "stream_started"
                /\ active_streams'[v].status = "active"
                /\ active_streams'[v].socket_ids = {last'.sid}
                /\ t \notin DOMAIN workers
                /\ DOMAIN workers' = DOMAIN workers \cup {t}
                /\ workers'[t].visitor = v /\ workers'[t].pc = "spawned"
                /\ workers'[t].idx = 1
                /\ events'[t] = <<>>
                /\ \A w \in DOMAIN workers :
                        workers'[w] = workers[w] /\ events'[w] = events[w]
       /\ \A w \in DOMAIN workers :
            (events[w] = <<>> /\ events'[w] # <<>> /\ events'[w][1].type = "prediction")
                => events'[w][1].rec = TransactionID(1)]_vars

\* a connection has joined a visitor_id whose earlier worker has terminated
\* and reaped its session after emitting a prediction
C18_Witness ==
    /\ last.op = "join_stream" /\ last.reply = "stream_started"
    /\ \E w \in DOMAIN workers :
        /\ workers[w].visitor = last.visitor /\ workers[w].pc = "done"
        /\ Len(Predictions(w)) >= 1
    /\ workers[active_streams[last.visitor].thread].pc = "spawned"

\* C19: the step in which a worker fails (stream_error, reap) changes no
\* session of another visitor_id and no other worker.
FailureIsIsolated ==
    [][\A w \in DOMAIN workers :
        (Terminates(w) /\ workers'[w].raised) =>
            /\ \A v \in Visitors \ {workers[w].visitor} :
                /\ (v \in DOMAIN active_streams) = (v \in DOMAIN active_streams')
                /\ v \in DOMAIN active_streams => active_streams'[v] = active_streams[v]
            /\ \A x \in DOMAIN workers \ {w} :
                workers'[x] = workers[x] /\ events'[x] = events[x]]_vars

\* a worker has failed while the session of the other visitor_id is active
\* and its worker goes on
C19_Witness ==
    /\ last.op = "emit" /\ last.reply = "stream_error"
    /\ \E v \in DOMAIN active_streams :
        /\ v # last.visitor
        /\ active_streams[v].status = "active"
        /\ workers[active_streams[v].thread].pc = "sleeping"

\* C20: the answer to a payload that is not JSON, is empty or is no object is
\* 400 and the detector is not invoked; the answer to a non-empty object that
\* lacks card1, addr1, TransactionAmt or a categorical column is 422; 500 is
\* answered only when a complete object fails inside transform or scoring;
\* an answer other than 200 carries no result.
ThreeFailureSignals ==
    response # NoResponse =>
        /\ (~request.is_json \/ request.body # "object") =>
                (response.status = 400 /\ ~response.invoked)
        /\ (request.is_json /\ request.body = "object"
                /\ ~(RequiredFields \subseteq request.fields)) =>
                response.status = 422
        /\ response.status = 500 =>
                (/\ request.is_json /\ request.body = "object"
                 /\ RequiredFields \subseteq request.fields
                 /\ request.outcome # "ok")
        /\ response.status # 200 => response.data = "none"

\* C21: for every probability p, risk_level is CRITICAL iff p > 0.8, HIGH iff
\* 0.5 < p <= 0.8 and LOW otherwise, status is DENY iff p > 0.5 (that is, iff
\* the risk level is HIGH or CRITICAL): p = 0.5 is LOW/APPROVE, p = 0.8 is
\* HIGH/DENY, p = 0.81 is CRITICAL/DENY; predict and predict_batch agree.
ThresholdsExact ==
    LET Conforms(r, p) ==
            /\ r.risk_level \in {"CRITICAL", "HIGH", "LOW"}
            /\ r.status \in {"DENY", "APPROVE"}
            /\ r.risk_level = "CRITICAL" <=> 10 * p > 8 * ProbScale
            /\ r.risk_level = "HIGH" <=> (10 * p > 5 * ProbScale /\ 10 * p <= 8 * ProbScale)
            /\ r.status = "DENY" <=> 10 * p > 5 * ProbScale
            /\ r.status = "DENY" <=> r.risk_level \in {"HIGH", "CRITICAL"}
            /\ 10 * p = 5 * ProbScale => r.risk_level = "LOW" /\ r.status = "APPROVE"
            /\ 10 * p = 8 * ProbScale => r.risk_level = "HIGH" /\ r.status = "DENY"
            /\ 100 * p = 81 * ProbScale => r.risk_level = "CRITICAL" /\ r.status = "DENY"
    IN  /\ score.single # NoResult => Conforms(score.single, score.prob)
        /\ \A i \in DOMAIN score.batch :
              Conforms(score.batch[i], score.batch[i].fraud_probability)
        /\ (score.single # NoResult /\ score.batch # <<>>) =>
              /\ score.batch[1].risk_level = score.single.risk_level
              /\ score.batch[1].status = score.single.status

C21_Witness ==
    /\ 10 * score.prob = 8 * ProbScale
    /\ score.single.risk_level = "HIGH" /\ score.single.status = "DENY"
    /\ Len(score.batch) = 2
    /\ score.batch[1].risk_level = "HIGH" /\ score.batch[2].risk_level = "LOW"

\* C27: the thresholds applied to the fraud_probability that predict returns
\* (rounded to 4 decimals) give the risk_level and the status returned with
\* it: 0.5 never comes with DENY, 0.8 never with CRITICAL.
RoundedConsistent ==
    score.single # NoResult =>
        LET r == score.single.fraud_probability IN
        /\ score.single.risk_level =
              (IF r > 8000 THEN "CRITICAL" ELSE IF r > 5000 THEN "HIGH" ELSE "LOW")
        /\ score.single.status = (IF r > 5000 THEN "DENY" ELSE "APPROVE")

\* C22: whenever preprocess returns, the frame has exactly the columns of
\* final_columns in that order and one row per input row, and no cell is
\* missing: a missing cell of a numeric input column comes out as -999,
\* whatever extra or absent non-required fields the input has.
OutputAligned ==
    (transform.calls > 0 /\ transform.result.raised = "none") =>
        LET out == transform.result.out
            arg == transform.arg IN
        /\ out.columns = final_columns
        /\ Len(out.rows) = Len(arg.rows)
        /\ \A i \in DOMAIN out.rows :
              /\ DOMAIN out.rows[i] = Range(final_columns)
              /\ \A c \in Range(final_columns) : out.rows[i][c] # NaN
              /\ \A c \in {"TransactionAmt", "card1", "addr1", "dist1"} \cap arg.columns :
                    out.rows[i][c] =
                        (IF arg.rows[i][c] = NaN THEN Num(Sentinel) ELSE arg.rows[i][c])

C22_Witness ==
    /\ transform.calls > 0
    /\ transform.result.raised = "none"
    /\ "extra" \in transform.arg.columns
    /\ "dist1" \notin transform.arg.columns
    /\ "DeviceInfo" \in transform.arg.columns
    /\ transform.arg.rows[1]["DeviceInfo"] = NaN
    /\ transform.result.out.rows[1]["dist1"] = Num(Sentinel)
    /\ transform.result.out.rows[1]["DeviceInfo"] = Num(Sentinel)

\* C23: each ratio is amount / statistic when the card has the statistic, the
\* statistic is not zero and the amount is present (100 with mean 50 and std
\* 10 gives 2 and 10); otherwise (unknown card, statistic missing, zero
\* divisor, amount missing) it is exactly -999, never infinite or missing;
\* the lookup of an unknown card raises nothing.
RatiosOrSentinel ==
    transform.calls > 0 =>
        LET arg == transform.arg
            out == transform.result.out
            Expected(row, metric) ==
                LET card == row["card1"]
                    amt == row["TransactionAmt"] IN
                IF /\ card[1] = "num" /\ card[2] \in DOMAIN card_stats
                   /\ metric \in DOMAIN card_stats[card[2]]
                   /\ card_stats[card[2]][metric] # 0
                   /\ amt[1] = "num"
                THEN LET d == card_stats[card[2]][metric] IN
                     IF amt[2] % d = 0 THEN Num(amt[2] \div d) ELSE Frac(amt[2], d)
                ELSE Num(Sentinel)
        IN
        /\ transform.result.raised = "KeyError" =>
              ~(({"card1", "addr1", "TransactionAmt"} \cup cat_cols) \subseteq arg.columns)
        /\ transform.result.raised = "none" =>
              \A i \in DOMAIN arg.rows :
                /\ out.rows[i]["TransactionAmt_to_mean_card1"] = Expected(arg.rows[i], "mean")
                /\ out.rows[i]["TransactionAmt_to_std_card1"] = Expected(arg.rows[i], "std")
                /\ (arg.rows[i]["card1"] = Num(1234) /\ arg.rows[i]["TransactionAmt"] = Num(100))
                     => /\ out.rows[i]["TransactionAmt_to_mean_card1"] = Num(2)
                        /\ out.rows[i]["TransactionAmt_to_std_card1"] = Num(10)

C23_Witness ==
    /\ transform.calls > 0
    /\ transform.result.raised = "none"
    /\ transform.arg.rows[1]["card1"] = Num(2222)
    /\ transform.arg.rows[1]["TransactionAmt"] = Num(-50)
    /\ transform.result.out.rows[1]["TransactionAmt_to_mean_card1"] = Num(Sentinel)
    /\ transform.result.out.rows[1]["TransactionAmt_to_std_card1"] = Num(Sentinel)

MissingColumnsDefaulted ==
    (transform.calls > 0 /\ transform.result.raised # "ValueError") =>
        LET arg == transform.arg
            out == transform.result.out
            Text(row, c) ==
                IF c \notin arg.columns \/ row[c] = NaN THEN "MISSING"
                ELSE ToString(row[c][2])
        IN
        /\ transform.result.raised = "none"
        /\ \A i \in DOMAIN arg.rows :
              \A c \in {"TransactionAmt", "card1", "addr1", "ProductCD",
                        "DeviceInfo", "dist1"} \ arg.columns :
                  out.rows[i][c] = Num(Sentinel)
        /\ (arg.is_dict /\ ~({"card1", "addr1"} \subseteq arg.columns)) =>
              transform.result.uid1[1] =
                  Str(Text(arg.rows[1], "card1") \o "_" \o Text(arg.rows[1], "addr1"))

\* C26: the artifact bundle is loaded once: however the calls of get_detector
\* by the predict route and by the stream workers interleave, at most one
\* FraudDetector is ever constructed, every caller that got a detector got
\* that one, and the global is never bound to another one afterwards.
DetectorBuiltOnce ==
    /\ detector.built <= 1
    /\ \A c \in Callers : detector.handed[c] # 0 => detector.handed[c] = detector.instance

C26_Witness ==
    /\ detector.built = 1
    /\ detector.handed[0] = 1
    /\ \A w \in WorkerIds : detector.handed[w] = 1 /\ detector.gets[w] = MaxGets

\* C28: cleanup is sticky: a session whose status is 'cleanup' never becomes
\* 'active' again; a join into it adds the connection to the subscriber set
\* and is answered joined_existing_stream, the status stays 'cleanup' and no
\* task is started; the next step of its worker is still its last one.
CleanupIsSticky ==
    [][\A v \in DOMAIN active_streams :
        active_streams[v].status = "cleanup" =>
            /\ (v \in DOMAIN active_streams'
                    /\ active_streams'[v].thread = active_streams[v].thread)
                  => active_streams'[v].status = "cleanup"
            /\ (last' # last /\ last'.op = "join_stream" /\ last'.visitor = v)
                  => /\ last'.reply = "joined_existing_stream"
                     /\ v \in DOMAIN active_streams'
                     /\ active_streams'[v] =
                            [active_streams[v] EXCEPT !.socket_ids = @ \cup {last'.sid}]
                     /\ workers' = workers
            /\ \A w \in DOMAIN workers :
                  (/\ active_streams[v].thread = w
                   /\ active_streams[v].socket_ids # {}
                   /\ workers'[w] # workers[w])
                  => /\ workers'[w].pc = "done"
                     /\ PredCount(events'[w]) = PredCount(events[w])]_vars

\* a connection has joined a session that is marked for cleanup and whose
\* worker has not yet looked at the mark
C28_Witness ==
    /\ last.op = "join_stream" /\ last.reply = "joined_existing_stream"
    /\ last.visitor \in DOMAIN active_streams
    /\ active_streams[last.visitor].status = "cleanup"
    /\ active_streams[last.visitor].socket_ids = {last.sid}
    /\ active_streams[last.visitor].thread \in Live

\* C29: a join_stream without a visitor_id is answered with an error event
\* to the sender and changes nothing: no session, no task, active_streams,
\* socket_to_visitor and the rooms as before.
JoinWithoutVisitorRejected ==
    [][(last' # last /\ last'.op = "join_stream" /\ last'.visitor = NoVisitor)
        => /\ last'.reply = "error"
           /\ last'.to = {last'.sid}
           /\ UNCHANGED <<active_streams, socket_to_visitor, rooms, workers, events>>]_vars

\* a subscriber of a running session has sent a join without visitor_id
C29_Witness ==
    /\ last.op = "join_stream" /\ last.reply = "error" /\ last.visitor = NoVisitor
    /\ last.sid \in DOMAIN socket_to_visitor
    /\ socket_to_visitor[last.sid] \in DOMAIN active_streams
    /\ last.sid \in active_streams[socket_to_visitor[last.sid]].socket_ids

\* C30: retrieval falls back to the cache: download_artifact returns the
\* cached path without asking the remote store when the file is cached and
\* force_download is false; when the download fails it returns the cached
\* path if there is one and raises otherwise; download_all_artifacts returns
\* the paths of all five artifacts or raises, never a part of them; and the
\* detector's loader loads the local artifacts whenever loading from the
\* remote store fails.
CacheFallback ==
    LET did == hub.did
        Obtainable(f) == f \in did.before \/ f \in hub.remote
    IN
    /\ did.op = "download_artifact" =>
          /\ (did.file \in did.before /\ ~hub.force) =>
                did.result = "path" /\ did.contacted = {}
          /\ (did.file \in did.contacted /\ did.file \notin hub.remote) =>
                did.result = (IF did.file \in did.before THEN "path" ELSE "raise")
    /\ did.op = "download_all_artifacts" =>
          /\ did.result = "path" => did.paths = Artifacts /\ Cardinality(did.paths) = 5
          /\ did.result = "raise" => did.paths = {}
          /\ did.result = "path" <=> \A f \in Artifacts : Obtainable(f)
    /\ did.op = "_load_from_huggingface" =>
          LET remoteFails == hub.hf # "ok" \/ \E f \in Artifacts : ~Obtainable(f) IN
          did.source = (IF ~remoteFails THEN "huggingface"
                        ELSE IF hub.local THEN "local" ELSE "failed")

\* a forced download failed and the cached file was returned
C30_Witness ==
    /\ hub.did.op = "download_artifact"
    /\ hub.force
    /\ hub.did.file \in hub.did.before
    /\ hub.did.file \notin hub.remote
    /\ hub.did.contacted = {hub.did.file}
    /\ hub.did.result = "path"

====
